---- MODULE Spec2Model ----
(***************************************************************************)
(* Evaluation core of the tantabus chess engine:                           *)
(*   engine/src/nnue/mod.rs   feature(), NnueState::{add, sub, evaluate}   *)
(*   engine/src/eval/eval.rs  game_phase(), EvalContext::eval and terms    *)
(*                                                                         *)
(* Colors, pieces and squares are the cozy_chess numberings the source     *)
(* casts with `as usize`: White = 0, Black = 1; Pawn .. King = 0 .. 5;     *)
(* square = rank * 8 + file with A1 = 0 and H8 = 63.                       *)
(***************************************************************************)
EXTENDS Integers, Sequences, FiniteSets, TLC

VARIABLES
    overflow_checks, \* build profile: TRUE = integer overflow panics, FALSE = it wraps
    \* ---- NnueState (nnue/mod.rs)
    accumulator,     \* [Color -> Seq of FT_OUT i16]
    material,        \* usize; a value m < 0 stands for the wrapped value 2^64 + m
    net,             \* history: triple -> (#add calls - #sub calls), zero entries dropped
    oversub,         \* history: some sub call had no earlier unmatched add
    panicked,        \* an add/sub call panicked (overflow check)
    calls,           \* number of add/sub calls made so far
    nnLast,          \* what the last call was and what evaluate computed
    \* ---- feature()
    fArgs, fIndex,
    \* ---- game_phase()
    counts, phase, prevPhase, phaseOp,
    \* ---- handcrafted evaluator
    board, side_to_move, weightSet, ev

nnVars == <<accumulator, material, net, oversub, panicked, calls, nnLast>>
ftVars == <<fArgs, fIndex>>
phVars == <<counts, phase, prevPhase, phaseOp>>
evVars == <<board, side_to_move, weightSet, ev>>
vars == <<overflow_checks, nnVars, ftVars, phVars, evVars>>

-----------------------------------------------------------------------------
(* cozy_chess enumerations *)

White == 0
Black == 1
ColorNUM == 2
PieceNUM == 6
SquareNUM == 64
Color == 0 .. (ColorNUM - 1)
Piece == 0 .. (PieceNUM - 1)
Square == 0 .. (SquareNUM - 1)
Pawn == 0
Knight == 1
Bishop == 2
Rook == 3
Queen == 4
King == 5

\* `!color`
Not(color) == 1 - color

FileOf(sq) == sq % 8
RankOf(sq) == sq \div 8
Sq(file, rank) == rank * 8 + file

\* Square::flip_rank: the square mirrored top to bottom (sq ^ 56)
flip_rank(sq) == Sq(FileOf(sq), 7 - RankOf(sq))

-----------------------------------------------------------------------------
(* integer helpers *)

Min(a, b) == IF a < b THEN a ELSE b
Max(a, b) == IF a > b THEN a ELSE b

\* Rust integer division truncates toward zero (b > 0)
TruncDiv(a, b) == IF a >= 0 THEN a \div b ELSE -((-a) \div b)

I16_MIN == -32768
I16_MAX == 32767
InI16(x) == x >= I16_MIN /\ x <= I16_MAX
\* two's complement wrap of an integer to 16 bits
Wrap16(x) == ((x + 32768) % 65536) - 32768

RECURSIVE SumSeq(_)
SumSeq(s) == IF s = <<>> THEN 0 ELSE Head(s) + SumSeq(Tail(s))

-----------------------------------------------------------------------------
(* nnue/mod.rs *)

FEATURES == 768
FT_OUT == 32
L1_OUT == 16
ACTIVATION_RANGE == 127
WEIGHT_SCALE == 64
OUTPUT_SCALE == 203
BUCKET_DIV == 76

\* feature(): the index! macro folds index = index * count + value
feature_halfflip(perspective, color, piece, square) ==
    LET sq == IF perspective = Black THEN flip_rank(square) ELSE square
    IN  ((0 * ColorNUM + color) * PieceNUM + piece) * SquareNUM + sq

feature(perspective, color, piece, square) ==
    LET sq == IF perspective = Black THEN flip_rank(square) ELSE square
        c  == IF perspective = Black THEN Not(color) ELSE color
    IN  ((0 * ColorNUM + c) * PieceNUM + piece) * SquareNUM + sq

VALUES == <<1, 3, 3, 5, 8, 0>>
PieceValue(piece) == VALUES[piece + 1]

\* The model blob (model.txt): the feature transformer's rows and biases and the
\* output layer.  Any i16 / i8 values are a model; these are one fixed choice.
FtWeight(f, i) == ((f * 7 + i * 13) % 41) - 20
FtBias(i) == ((i * 5) % 11) - 3
L1Weight(bucket, j) == ((bucket * 3 + j * 7) % 17) - 8
L1Bias(bucket) == bucket * 10 - 70

\* BitLinear::empty: the accumulator of the empty board is the bias vector
FtEmpty == [i \in 1 .. FT_OUT |-> FtBias(i - 1)]
\* BitLinear::add / BitLinear::sub: row `f` added to / subtracted from an accumulator
FtAdd(f, acc) == [i \in 1 .. FT_OUT |-> Wrap16(acc[i] + FtWeight(f, i - 1))]
FtSub(f, acc) == [i \in 1 .. FT_OUT |-> Wrap16(acc[i] - FtWeight(f, i - 1))]

\* Nnue::new_state
NewAccumulator == [p \in Color |-> FtEmpty]
NewMaterial == 0

\* NnueState::add, the accumulator loop over Color::ALL
AddAcc_samePerspective(acc, color, piece, square) ==
    [p \in Color |-> FtAdd(feature(White, color, piece, square), acc[p])]

AddAcc(acc, color, piece, square) ==
    [p \in Color |-> FtAdd(feature(p, color, piece, square), acc[p])]

\* NnueState::sub, the accumulator loop over Color::ALL
SubAcc_whiteOnly(acc, color, piece, square) ==
    [p \in Color |-> IF p = White
                     THEN FtSub(feature(p, color, piece, square), acc[p])
                     ELSE acc[p]]

SubAcc(acc, color, piece, square) ==
    [p \in Color |-> FtSub(feature(p, color, piece, square), acc[p])]

\* clipped_relu(0, ACTIVATION_RANGE, ..) of one accumulator
ClippedRelu(v) == [i \in 1 .. FT_OUT |-> Max(0, Min(ACTIVATION_RANGE, v[i]))]

\* self.material * 16 / 76 on a usize.  A wrapped counter (m < 0, that is 2^64 + m,
\* which only a build without overflow checks produces) times 16 wraps to
\* 2^64 + 16 m, and that divided by 76 is far above 15; 16 stands for the quotient.
MaterialQuotient(m) == IF m >= 0 THEN (m * 16) \div BUCKET_DIV ELSE 16

Bucket_uncapped(m) == MaterialQuotient(m)

Bucket(m) == Min(15, MaterialQuotient(m))

\* Linear::activate for one bucket: bias plus the dot product with the inputs
L1Activate(inputs, bucket) ==
    L1Bias(bucket) +
    SumSeq([j \in 1 .. (2 * FT_OUT) |-> inputs[j] * L1Weight(bucket, j - 1)])

\* NnueState::evaluate: inputs[0] is the side to move's clipped accumulator
EvalInputs(acc, stm) == ClippedRelu(acc[stm]) \o ClippedRelu(acc[Not(stm)])

NnueOutput(acc, m, stm) ==
    LET output == L1Activate(EvalInputs(acc, stm), Bucket(m))
    IN  TruncDiv(TruncDiv(output * OUTPUT_SCALE, WEIGHT_SCALE), ACTIVATION_RANGE)

-----------------------------------------------------------------------------
(* Callers of NnueState: the search places and removes pieces one add / sub  *)
(* call at a time, after setting the state up from a position.               *)

MaxCalls == 4

\* the (color, piece, square) triples the add / sub calls are drawn from
TriplePool ==
    { <<White, Pawn, 12>>, <<Black, Queen, 59>>, <<White, King, 4>>,
      <<Black, Knight, 45>> }

BackRank == <<Rook, Knight, Bishop, Queen, King, Bishop, Knight, Rook>>

\* the starting position, as the sequence of add calls that sets it up
StartPieces ==
    [k \in 1 .. 32 |->
        IF k <= 8 THEN <<White, BackRank[k], Sq(k - 1, 0)>>
        ELSE IF k <= 16 THEN <<White, Pawn, Sq(k - 9, 1)>>
        ELSE IF k <= 24 THEN <<Black, Pawn, Sq(k - 17, 6)>>
        ELSE <<Black, BackRank[k - 24], Sq(k - 25, 7)>>]

StartBoard == {StartPieces[k] : k \in 1 .. 32}

RECURSIVE AddAll(_, _)
AddAll(acc, ts) ==
    IF ts = <<>> THEN acc
    ELSE AddAll(AddAcc(acc, Head(ts)[1], Head(ts)[2], Head(ts)[3]), Tail(ts))

NetOf(t) == IF t \in DOMAIN net THEN net[t] ELSE 0

NetWith(t, d) ==
    LET n == NetOf(t) + d
        D == IF n = 0 THEN DOMAIN net \ {t} ELSE DOMAIN net \cup {t}
    IN  [x \in D |-> IF x = t THEN n ELSE net[x]]

NoEval == [op |-> "new", stm |-> White, inputs |-> <<>>, bucket |-> 0, output |-> 0]

\* the other components' variables, parked while one component runs
IdleNnue ==
    /\ accumulator = NewAccumulator /\ material = NewMaterial
    /\ net = <<>> /\ oversub = FALSE /\ panicked = FALSE /\ calls = 0
    /\ nnLast = NoEval
IdleFeature == fArgs = <<White, White, Pawn, 0>> /\ fIndex = -1
IdlePhase ==
    counts = <<0, 0, 0, 0, 0>> /\ phase = 0 /\ prevPhase = 0 /\ phaseOp = <<"idle", 0>>
IdleEval ==
    board = {} /\ side_to_move = White /\ weightSet = 0 /\ ev = [called |-> FALSE]

InitNnue ==
    /\ overflow_checks \in BOOLEAN
    /\ IdleNnue /\ IdleFeature /\ IdlePhase /\ IdleEval

\* NnueState::add
NnAdd(color, piece, square) ==
    /\ ~panicked
    /\ calls < MaxCalls
    /\ material' = material + PieceValue(piece)
    /\ accumulator' = AddAcc(accumulator, color, piece, square)
    /\ net' = NetWith(<<color, piece, square>>, 1)
    /\ calls' = calls + 1
    /\ nnLast' = [NoEval EXCEPT !.op = "add"]
    /\ UNCHANGED <<overflow_checks, oversub, panicked, ftVars, phVars, evVars>>

\* NnueState::sub.  `self.material -= VALUES[piece]` on a usize below the value
\* panics where overflow is checked and wraps where it is not.
NnSub(color, piece, square) ==
    /\ ~panicked
    /\ calls < MaxCalls
    /\ calls' = calls + 1
    /\ net' = NetWith(<<color, piece, square>>, -1)
    /\ oversub' = (oversub \/ NetOf(<<color, piece, square>>) <= 0)
    /\ IF material >= 0 /\ material < PieceValue(piece) /\ overflow_checks
       THEN /\ panicked' = TRUE
            /\ UNCHANGED <<material, accumulator, nnLast>>
       ELSE /\ material' = material - PieceValue(piece)
            /\ accumulator' = SubAcc(accumulator, color, piece, square)
            /\ nnLast' = [NoEval EXCEPT !.op = "sub"]
            /\ UNCHANGED panicked
    /\ UNCHANGED <<overflow_checks, ftVars, phVars, evVars>>

\* NnueState::evaluate(side_to_move): takes &self
NnEvaluate(stm) ==
    /\ ~panicked
    /\ nnLast' = [op |-> "evaluate", stm |-> stm,
                  inputs |-> EvalInputs(accumulator, stm),
                  bucket |-> Bucket(material),
                  output |-> NnueOutput(accumulator, material, stm)]
    /\ UNCHANGED <<overflow_checks, accumulator, material, net, oversub, panicked,
                   calls, ftVars, phVars, evVars>>

\* new_state() followed by one add per piece of the starting position
NnSetupStart ==
    /\ calls = 0 /\ net = <<>> /\ nnLast.op = "new"
    /\ accumulator' = AddAll(accumulator, StartPieces)
    /\ material' = material + SumSeq([k \in 1 .. 32 |-> PieceValue(StartPieces[k][2])])
    /\ net' = [t \in StartBoard |-> 1]
    /\ nnLast' = [NoEval EXCEPT !.op = "add"]
    /\ UNCHANGED <<overflow_checks, oversub, panicked, calls, ftVars, phVars, evVars>>

NextNnue ==
    \/ \E t \in TriplePool : NnAdd(t[1], t[2], t[3])
    \/ \E t \in TriplePool : NnSub(t[1], t[2], t[3])
    \/ \E stm \in Color : NnEvaluate(stm)
    \/ NnSetupStart

SpecNnue == InitNnue /\ [][NextNnue]_vars

\* the sum of a function's values over its (finite) domain
RECURSIVE SumFn(_)
SumFn(f) ==
    IF DOMAIN f = {} THEN 0
    ELSE LET x == CHOOSE y \in DOMAIN f : TRUE
         IN  f[x] + SumFn([y \in DOMAIN f \ {x} |-> f[y]])

\* bias plus (adds - subs) times the row of every triple, from perspective p
ExpectedAcc(p) ==
    [i \in 1 .. FT_OUT |->
        FtBias(i - 1) +
        SumFn([t \in DOMAIN net |->
                  net[t] * FtWeight(feature(p, t[1], t[2], t[3]), i - 1)])]

ExpectedMaterial ==
    SumFn([t \in DOMAIN net |-> net[t] * PieceValue(t[2])])

NetsToEmpty == net = <<>> /\ calls > 0

C2_AccumulatorIsNetSum ==
    (~oversub /\ ~panicked) =>
        /\ \A p \in Color : accumulator[p] = ExpectedAcc(p)
        /\ material = ExpectedMaterial

C2_Witness ==
    /\ ~oversub /\ ~panicked
    /\ \E t \in DOMAIN net : net[t] = 2 /\ PieceValue(t[2]) > 0
    /\ material = ExpectedMaterial /\ material >= 2

\* C10: evaluate picks bucket min(15, material * 16 / 76), within 0 .. 15, 15 at
\* material 76 and 0 at material 0; its inputs are the side to move's accumulator
\* clipped to 0 .. 127 followed by the opponent's; it changes neither the
\* accumulator nor the material counter.
C10_EvaluateResult ==
    nnLast.op = "evaluate" =>
        /\ nnLast.bucket \in 0 .. 15
        /\ material >= 0 =>
              nnLast.bucket = (IF material * 16 >= 15 * 76 THEN 15
                               ELSE (material * 16) \div 76)
        /\ material = 76 => nnLast.bucket = 15
        /\ material = 0 => nnLast.bucket = 0
        /\ Len(nnLast.inputs) = 2 * FT_OUT
        /\ \A i \in 1 .. FT_OUT :
              /\ nnLast.inputs[i] \in 0 .. 127
              /\ nnLast.inputs[FT_OUT + i] \in 0 .. 127
              /\ nnLast.inputs[i] =
                    Max(0, Min(127, accumulator[nnLast.stm][i]))
              /\ nnLast.inputs[FT_OUT + i] =
                    Max(0, Min(127, accumulator[Not(nnLast.stm)][i]))

C10_Evaluate ==
    /\ []C10_EvaluateResult
    /\ [][nnLast'.op = "evaluate" =>
            (accumulator' = accumulator /\ material' = material)]_vars

C10_Witness ==
    /\ nnLast.op = "evaluate" /\ material = 76 /\ nnLast.bucket = 15
    /\ nnLast.stm = Black
    /\ \E i \in 1 .. FT_OUT : nnLast.inputs[i] # nnLast.inputs[FT_OUT + i]

-----------------------------------------------------------------------------
(* feature() on its own: every argument combination, one call *)

InitFeature ==
    /\ overflow_checks = FALSE
    /\ fArgs \in Color \X Color \X Piece \X Square
    /\ fIndex = -1
    /\ IdleNnue /\ IdlePhase /\ IdleEval

FeatureCall ==
    /\ fIndex = -1
    /\ fIndex' = feature(fArgs[1], fArgs[2], fArgs[3], fArgs[4])
    /\ UNCHANGED <<overflow_checks, fArgs, nnVars, phVars, evVars>>

NextFeature == FeatureCall

SpecFeature == InitFeature /\ [][NextFeature]_vars

\* C3: feature(White, c, p, sq) = (c * 6 + p) * 64 + sq, it equals
\* feature(Black, !c, p, flip_rank(sq)) (so from Black's perspective the index is
\* that of the opposite color on the rank-mirrored square), and every index is
\* in 0 .. 767.
C3_PerspectiveSymmetry ==
    fIndex # -1 =>
        LET persp == fArgs[1]
            c     == fArgs[2]
            p     == fArgs[3]
            sq    == fArgs[4]
            mirrored == (7 - (sq \div 8)) * 8 + (sq % 8)
        IN  /\ fIndex >= 0 /\ fIndex < 768
            /\ persp = White => fIndex = (c * 6 + p) * 64 + sq
            /\ persp = Black => fIndex = ((1 - c) * 6 + p) * 64 + mirrored
            /\ fIndex = feature(Not(persp), Not(c), p, flip_rank(sq))

C3_Witness ==
    /\ fArgs = <<Black, White, Queen, 3>>
    /\ fIndex = (1 * 6 + 4) * 64 + 59

-----------------------------------------------------------------------------
(* eval.rs: game_phase *)

MAX_PHASE == 256

\* game_phase_fn!: the weight and the per-side opening count of each piece type
PhaseWeight == <<0, 1, 1, 2, 4>>
PhaseCount == <<8, 2, 2, 2, 1>>
PhasePieces == {Pawn, Knight, Bishop, Rook, Queen}

INIT_PHASE == SumSeq([k \in 1 .. 5 |-> PhaseCount[k] * PhaseWeight[k]]) * 2

\* inv_phase: popcnt of each piece type (both colors) times its weight
InvPhase(cnt) == SumSeq([k \in 1 .. 5 |-> cnt[k - 1] * PhaseWeight[k]])

\* u32::saturating_sub
SaturatingSub(a, b) == IF b > a THEN 0 ELSE a - b

GamePhase_unclamped(cnt) ==
    LET ph == INIT_PHASE - InvPhase(cnt)
    IN  (ph * MAX_PHASE + (INIT_PHASE \div 2)) \div INIT_PHASE

\* game_phase, as a function of the board's piece counts
GamePhase(cnt) ==
    LET ph == SaturatingSub(INIT_PHASE, InvPhase(cnt))
    IN  (ph * MAX_PHASE + (INIT_PHASE \div 2)) \div INIT_PHASE

\* most pieces of one type on the boards game_phase is tried on
MaxCount == 4

InitPhase ==
    /\ overflow_checks = FALSE
    /\ counts \in [PhasePieces -> 0 .. MaxCount]
    /\ phase = GamePhase(counts)
    /\ prevPhase = phase
    /\ phaseOp = <<"init", Pawn>>
    /\ IdleNnue /\ IdleFeature /\ IdleEval

\* a piece of type p leaves the board (a capture), and the phase is recomputed
PhaseRemove(p) ==
    /\ counts[p] > 0
    /\ counts' = [counts EXCEPT ![p] = @ - 1]
    /\ prevPhase' = phase
    /\ phase' = GamePhase(counts')
    /\ phaseOp' = <<"remove", p>>
    /\ UNCHANGED <<overflow_checks, nnVars, ftVars, evVars>>

\* a pawn promotes to a piece of type p, and the phase is recomputed
PhasePromote(p) ==
    /\ p # Pawn
    /\ counts[Pawn] > 0 /\ counts[p] < MaxCount
    /\ counts' = [counts EXCEPT ![Pawn] = @ - 1, ![p] = @ + 1]
    /\ prevPhase' = phase
    /\ phase' = GamePhase(counts')
    /\ phaseOp' = <<"promote", p>>
    /\ UNCHANGED <<overflow_checks, nnVars, ftVars, evVars>>

NextPhase ==
    \/ \E p \in PhasePieces : PhaseRemove(p)
    \/ \E p \in PhasePieces : PhasePromote(p)

SpecPhase == InitPhase /\ [][NextPhase]_vars

\* C4: game_phase is in 0 .. 256 for every combination of piece counts, also
\* above the opening baseline, and removing a knight, bishop, rook or queen never
\* decreases it.
C4_PhaseRangeMonotone ==
    /\ phase >= 0 /\ phase <= 256
    /\ (phaseOp[1] = "remove" /\ phaseOp[2] \in {Knight, Bishop, Rook, Queen})
          => phase >= prevPhase

\* a queen removed from a board above the baseline (4 N, 4 B, 4 R, 3 Q before)
C4_Witness ==
    /\ phaseOp = <<"remove", Queen>>
    /\ counts[Knight] = 4 /\ counts[Bishop] = 4 /\ counts[Rook] = 4 /\ counts[Queen] = 2
    /\ prevPhase = phase

-----------------------------------------------------------------------------
(* The board queries eval.rs consumes (cozy_chess).  `board` is the set of     *)
(* <<color, piece, square>> of the pieces on it; a bitboard is a set of        *)
(* squares, iterated from A1 upward.                                           *)

colors(color) == {t[3] : t \in {u \in board : u[1] = color}}
pieces(piece) == {t[3] : t \in {u \in board : u[2] = piece}}
occupied == {t[3] : t \in board}
king(color) == CHOOSE sq \in Square : <<color, King, sq>> \in board
popcnt(bb) == Cardinality(bb)

\* the squares of a bitboard in iteration order
RECURSIVE Squares(_)
Squares(bb) ==
    IF bb = {} THEN <<>>
    ELSE LET lo == CHOOSE x \in bb : \A y \in bb : x <= y
         IN  <<lo>> \o Squares(bb \ {lo})

OnBoard(f, r) == f >= 0 /\ f <= 7 /\ r >= 0 /\ r <= 7

\* the squares at the given (file, rank) offsets from sq that are on the board
Steps(sq, offsets) ==
    {Sq(FileOf(sq) + d[1], RankOf(sq) + d[2]) :
        d \in {o \in offsets : OnBoard(FileOf(sq) + o[1], RankOf(sq) + o[2])}}

\* a sliding ray from sq: up to and including the first occupied square
RECURSIVE Ray(_, _, _, _)
Ray(sq, df, dr, occ) ==
    IF ~OnBoard(FileOf(sq) + df, RankOf(sq) + dr) THEN {}
    ELSE LET n == Sq(FileOf(sq) + df, RankOf(sq) + dr)
         IN  IF n \in occ THEN {n} ELSE {n} \cup Ray(n, df, dr, occ)

Forward(color) == IF color = White THEN 1 ELSE -1

get_knight_moves(sq) ==
    Steps(sq, {<<1, 2>>, <<2, 1>>, <<2, -1>>, <<1, -2>>,
               <<-1, -2>>, <<-2, -1>>, <<-2, 1>>, <<-1, 2>>})
get_king_moves(sq) ==
    Steps(sq, {<<1, 0>>, <<1, 1>>, <<0, 1>>, <<-1, 1>>,
               <<-1, 0>>, <<-1, -1>>, <<0, -1>>, <<1, -1>>})
get_bishop_moves(sq, occ) ==
    Ray(sq, 1, 1, occ) \cup Ray(sq, 1, -1, occ) \cup
    Ray(sq, -1, 1, occ) \cup Ray(sq, -1, -1, occ)
get_rook_moves(sq, occ) ==
    Ray(sq, 1, 0, occ) \cup Ray(sq, -1, 0, occ) \cup
    Ray(sq, 0, 1, occ) \cup Ray(sq, 0, -1, occ)
get_pawn_attacks(sq, color) ==
    Steps(sq, {<<-1, Forward(color)>>, <<1, Forward(color)>>})
\* the single push, and the double push from the pawn's starting rank
get_pawn_quiets(sq, color, occ) ==
    LET one == Steps(sq, {<<0, Forward(color)>>}) \ occ
        home == IF color = White THEN 1 ELSE 6
        two == IF one # {} /\ RankOf(sq) = home
               THEN Steps(sq, {<<0, 2 * Forward(color)>>}) \ occ
               ELSE {}
    IN  one \cup two

Sgn(x) == IF x > 0 THEN 1 ELSE IF x < 0 THEN -1 ELSE 0
Abs(x) == IF x < 0 THEN -x ELSE x

\* the squares strictly between a and b when they share a line, else none
get_between_rays(a, b) ==
    LET df == FileOf(b) - FileOf(a)
        dr == RankOf(b) - RankOf(a)
    IN  IF a = b \/ ~(df = 0 \/ dr = 0 \/ Abs(df) = Abs(dr)) THEN {}
        ELSE Ray(a, Sgn(df), Sgn(dr), {b}) \ {b}

\* Rank::Eighth.relative_to(color)
PromotionRank(color) == IF color = White THEN 7 ELSE 0
\* File::bitboard
FileBB(file) == {sq \in Square : FileOf(sq) = file}

\* game_phase(board)
game_phase == GamePhase([p \in PhasePieces |-> popcnt(pieces(p))])

\* sign(color)
sign_alwaysPlus(color) == 1

sign(color) == IF color = White THEN 1 ELSE -1

-----------------------------------------------------------------------------
(* PhasedEval: a (midgame, endgame) pair of i16, field 0 the midgame value.    *)
(* `ok` is FALSE once an operation overflowed in a build that checks overflow  *)
(* (the call panicked); where overflow is not checked the fields wrap.         *)

PhasedEval(mg, eg) == [mg |-> mg, eg |-> eg, ok |-> TRUE]
ZERO == PhasedEval(0, 0)

PArith(a, b, mg, eg) ==
    [mg |-> Wrap16(mg), eg |-> Wrap16(eg),
     ok |-> a.ok /\ b.ok /\ (overflow_checks => (InI16(mg) /\ InI16(eg)))]

\* PhasedEval + PhasedEval and PhasedEval - PhasedEval
PAdd(a, b) == PArith(a, b, a.mg + b.mg, a.eg + b.eg)
PSub(a, b) == PArith(a, b, a.mg - b.mg, a.eg - b.eg)

\* `eval += w` for each w of ws, in order
RECURSIVE PFold(_, _)
PFold(acc, ws) == IF ws = <<>> THEN acc ELSE PFold(PAdd(acc, Head(ws)), Tail(ws))

-----------------------------------------------------------------------------
(* EvalTerms<E>: one table entry is named <<table, i, j, k>>.                  *)

\* KingRelativePst: the entry for a square, seen from `color` (ranks counted from
\* its own side) and bucketed by the side of the board its king stands on
KingRelKey(color, our_king, square) ==
    <<IF FileOf(our_king) > 3 THEN 1 ELSE 0,
      IF color = White THEN square ELSE flip_rank(square)>>

\* piece_tables.get(piece, color, our_king, square)
PstIdx(piece, color, our_king, square) ==
    <<"piece_tables", piece, KingRelKey(color, our_king, square)[1],
      KingRelKey(color, our_king, square)[2]>>
\* mobility.get(piece)[mobility]
MobIdx(piece, mobility) == <<"mobility", piece, 0, mobility>>
\* virtual_queen_mobility[mobility]
VqIdx(mobility) == <<"virtual_queen_mobility", 0, 0, mobility>>
\* passed_pawns.get(color, our_king, pawn)
PpIdx(color, our_king, pawn) ==
    <<"passed_pawns", 0, KingRelKey(color, our_king, pawn)[1],
      KingRelKey(color, our_king, pawn)[2]>>
BishopPairIdx == <<"bishop_pair", 0, 0, 0>>
RookOpenIdx == <<"rook_on_open_file", 0, 0, 0>>
RookSemiopenIdx == <<"rook_on_semiopen_file", 0, 0, 0>>

TableNo(table) ==
    CASE table = "piece_tables" -> 0
      [] table = "mobility" -> 1
      [] table = "virtual_queen_mobility" -> 2
      [] table = "passed_pawns" -> 3
      [] table = "bishop_pair" -> 4
      [] table = "rook_on_open_file" -> 5
      [] table = "rook_on_semiopen_file" -> 6

EntryNo(idx) == ((TableNo(idx[1]) * 6 + idx[2]) * 2 + idx[3]) * 64 + idx[4]

\* The weight sets evaluate_with_weights_and_trace is called with: two sets of
\* moderate weights, different in every entry, and one extreme set whose only
\* non-zero weight is bishop_pair = PhasedEval(i16::MIN, i16::MIN).
WeightSets == 1 .. 3
ExtremeSet == 3

WeightOf(ws, idx) ==
    IF ws = ExtremeSet
    THEN IF idx = BishopPairIdx THEN PhasedEval(I16_MIN, I16_MIN) ELSE ZERO
    ELSE PhasedEval(((EntryNo(idx) * 37 + ws * 11) % 201) - 100,
                    ((EntryNo(idx) * 53 + ws * 7) % 151) - 75)

\* self.weights, entry idx
WeightAt(idx) == WeightOf(weightSet, idx)

-----------------------------------------------------------------------------
(* EvalContext: the six term groups.  X_terms(color) is the PhasedEval the      *)
(* function returns, X_trace(color) the trace writes it makes, as               *)
(* <<entry, amount>> in order.                                                  *)

\* `for &piece in &Piece::ALL { for square in our_pieces & pieces(piece)`
RECURSIVE PieceVisitsFrom(_, _)
PieceVisitsFrom(color, piece) ==
    IF piece >= PieceNUM THEN <<>>
    ELSE LET sqs == Squares(colors(color) \cap pieces(piece))
         IN  [k \in 1 .. Len(sqs) |-> <<piece, sqs[k]>>]
             \o PieceVisitsFrom(color, piece + 1)
PieceVisits(color) == PieceVisitsFrom(color, 0)

psqt_trace(color) ==
    LET v == PieceVisits(color)
    IN  [k \in 1 .. Len(v) |->
            <<PstIdx(v[k][1], color, king(color), v[k][2]), sign(color)>>]

psqt_terms(color) ==
    LET v == PieceVisits(color)
    IN  PFold(ZERO, [k \in 1 .. Len(v) |->
                        WeightAt(PstIdx(v[k][1], color, king(color), v[k][2]))])

\* approx_moves of one piece
approx_moves(piece, square, color) ==
    LET our_pieces == colors(color) IN
    CASE piece = Pawn ->
            get_pawn_quiets(square, color, occupied) \cup
            (get_pawn_attacks(square, color) \cap colors(Not(color)))
      [] piece = Knight -> get_knight_moves(square) \ our_pieces
      [] piece = Bishop -> get_bishop_moves(square, occupied) \ our_pieces
      [] piece = Rook -> get_rook_moves(square, occupied) \ our_pieces
      [] piece = Queen ->
            (get_bishop_moves(square, occupied) \cup get_rook_moves(square, occupied))
                \ our_pieces
      [] piece = King -> get_king_moves(square) \ our_pieces

mobility_trace(color) ==
    LET v == PieceVisits(color)
    IN  [k \in 1 .. Len(v) |->
            <<MobIdx(v[k][1], popcnt(approx_moves(v[k][1], v[k][2], color))),
              sign(color)>>]

mobility_terms(color) ==
    LET v == PieceVisits(color)
    IN  PFold(ZERO, [k \in 1 .. Len(v) |->
            WeightAt(MobIdx(v[k][1], popcnt(approx_moves(v[k][1], v[k][2], color))))])

approx_queen_moves(color) ==
    (get_bishop_moves(king(color), occupied) \cup get_rook_moves(king(color), occupied))
        \ colors(color)

virtual_queen_mobility_trace(color) ==
    << <<VqIdx(popcnt(approx_queen_moves(color))), sign(color)>> >>

virtual_queen_mobility(color) == WeightAt(VqIdx(popcnt(approx_queen_moves(color))))

\* passed_pawn_terms: the blocker mask of one pawn
front_span(pawn, color) ==
    get_between_rays(pawn, Sq(FileOf(pawn), PromotionRank(color)))

blocker_mask(pawn, color) ==
    front_span(pawn, color) \cup
    UNION {get_between_rays(attack, Sq(FileOf(attack), PromotionRank(color)))
              \cup {attack} : attack \in get_pawn_attacks(pawn, color)}

passed_ownFileOnly(pawn, color) ==
    LET our_pawns == colors(color) \cap pieces(Pawn)
        their_pawns == pieces(Pawn) \ our_pawns
    IN  /\ their_pawns \cap front_span(pawn, color) = {}
        /\ our_pawns \cap front_span(pawn, color) = {}

\* `let passed = ...`
passed(pawn, color) ==
    LET our_pawns == colors(color) \cap pieces(Pawn)
        their_pawns == pieces(Pawn) \ our_pawns
    IN  /\ their_pawns \cap blocker_mask(pawn, color) = {}
        /\ our_pawns \cap front_span(pawn, color) = {}

\* the pawns of `for pawn in our_pawns` that take the `if passed` branch, in order
PassedPawns(color) ==
    Squares({pawn \in colors(color) \cap pieces(Pawn) : passed(pawn, color)})

passed_pawn_trace(color) ==
    LET v == PassedPawns(color)
    IN  [k \in 1 .. Len(v) |-> <<PpIdx(color, king(color), v[k]), sign(color)>>]

passed_pawn_terms(color) ==
    LET v == PassedPawns(color)
    IN  PFold(ZERO, [k \in 1 .. Len(v) |-> WeightAt(PpIdx(color, king(color), v[k]))])

RookFile_pawnlessOnly(rook, color) ==
    IF FileBB(FileOf(rook)) \cap pieces(Pawn) = {} THEN "open" ELSE "none"

\* rook_on_open_file_terms: the branch one rook takes
RookFile(rook, color) ==
    LET file_bb == FileBB(FileOf(rook))
        our_pawns == colors(color) \cap pieces(Pawn)
    IN  IF file_bb \cap pieces(Pawn) = {} THEN "open"
        ELSE IF file_bb \cap our_pawns = {} THEN "semiopen"
        ELSE "none"

\* `for rook in our_rooks`, the rooks that take one of the two branches
RookHits(color) ==
    LET rooks == Squares(colors(color) \cap pieces(Rook))
    IN  SelectSeq(rooks, LAMBDA rook : RookFile(rook, color) # "none")

RookIdx(rook, color) ==
    IF RookFile(rook, color) = "open" THEN RookOpenIdx ELSE RookSemiopenIdx

rook_on_open_file_trace(color) ==
    LET v == RookHits(color)
    IN  [k \in 1 .. Len(v) |-> <<RookIdx(v[k], color), sign(color)>>]

rook_on_open_file_terms(color) ==
    LET v == RookHits(color)
    IN  PFold(ZERO, [k \in 1 .. Len(v) |-> WeightAt(RookIdx(v[k], color))])

HasBishopPair(color) == popcnt(colors(color) \cap pieces(Bishop)) >= 2

bishop_pair_trace(color) ==
    IF HasBishopPair(color) THEN << <<BishopPairIdx, sign(color)>> >> ELSE <<>>

bishop_pair_terms(color) ==
    IF HasBishopPair(color) THEN PAdd(ZERO, WeightAt(BishopPairIdx)) ELSE ZERO

\* every trace write of one eval() call
TraceWrites ==
    psqt_trace(White) \o psqt_trace(Black) \o
    mobility_trace(White) \o mobility_trace(Black) \o
    virtual_queen_mobility_trace(White) \o virtual_queen_mobility_trace(Black) \o
    passed_pawn_trace(White) \o passed_pawn_trace(Black) \o
    rook_on_open_file_trace(White) \o rook_on_open_file_trace(Black) \o
    bishop_pair_trace(White) \o bishop_pair_trace(Black)

\* EvalTrace::default() after the writes `*entry += amount`: the non-zero entries
TraceTable(writes) ==
    LET total(idx) == SumSeq([k \in 1 .. Len(writes) |->
                                IF writes[k][1] = idx THEN writes[k][2] ELSE 0])
        touched == {writes[k][1] : k \in 1 .. Len(writes)}
    IN  [idx \in {i \in touched : total(i) # 0} |-> total(idx)]

\* eval(): `let eval = ...`, the White-minus-Black sum of the six groups
PhasedSum ==
    PAdd(PAdd(PAdd(PAdd(PAdd(
        PSub(psqt_terms(White), psqt_terms(Black)),
        PSub(mobility_terms(White), mobility_terms(Black))),
        PSub(virtual_queen_mobility(White), virtual_queen_mobility(Black))),
        PSub(passed_pawn_terms(White), passed_pawn_terms(Black))),
        PSub(rook_on_open_file_terms(White), rook_on_open_file_terms(Black))),
        PSub(bishop_pair_terms(White), bishop_pair_terms(Black)))

Interpolate_swapped(e, ph) ==
    TruncDiv(e.eg * (MAX_PHASE - ph) + e.mg * ph, MAX_PHASE)

\* eval(): `let interpolated = ...` in i32
Interpolate(e, ph) ==
    TruncDiv(e.mg * (MAX_PHASE - ph) + e.eg * ph, MAX_PHASE)

\* `Eval::cp(interpolated as i16 * sign(stm))`: an i16 multiplication, which
\* overflows for i16::MIN * -1
FinalScore(interpolated, stm) ==
    LET product == Wrap16(interpolated) * sign(stm)
    IN  [ok |-> (overflow_checks => InI16(product)), score |-> Wrap16(product)]

\* One call of evaluate_with_weights_and_trace on `board` with side to move stm:
\* what eval() computes on the way, the Eval it returns (score, when nothing
\* panicked) and the trace.
EvalResult(stm) ==
    LET e == PhasedSum
        ph == game_phase
        interpolated == Interpolate(e, ph)
        final == FinalScore(interpolated, stm)
    IN  [called |-> TRUE,
         stm |-> stm,
         phased |-> e,
         phase |-> ph,
         interpolated |-> interpolated,
         mul_ok |-> final.ok,
         score |-> final.score,
         trace |-> TraceTable(TraceWrites),
         passed |-> [c \in Color |-> {PassedPawns(c)[k] : k \in 1 .. Len(PassedPawns(c))}],
         rooks |-> [c \in Color |->
                       [r \in colors(c) \cap pieces(Rook) |-> RookFile(r, c)]]]

-----------------------------------------------------------------------------
(* Callers of the handcrafted evaluator: a position with its side to move and  *)
(* a weight set, and a call of evaluate_with_weights_and_trace on them.        *)

\* most pieces placed besides the two kings
MaxExtra == 3

Kings == { <<White, King, 6>>, <<Black, King, 57>> }

\* the pieces the positions are built from (all on different squares):
\* pawns e5 e3 (White) e7 f6 d3 (Black), the a-file with a White rook a1, pawns
\* a4 (White) a6 (Black) and a Black rook a8, the four bishops, a queen, a knight
PlacementPool ==
    { <<White, Pawn, 36>>, <<White, Pawn, 20>>, <<Black, Pawn, 52>>,
      <<Black, Pawn, 45>>, <<Black, Pawn, 19>>,
      <<White, Rook, 0>>, <<White, Pawn, 24>>, <<Black, Pawn, 40>>,
      <<Black, Rook, 56>>,
      <<White, Bishop, 2>>, <<White, Bishop, 5>>, <<Black, Bishop, 58>>,
      <<Black, Bishop, 61>>,
      <<White, Queen, 3>>, <<Black, Knight, 42>> }

\* the starting position, whole or with one pawn missing
StartVariants ==
    {StartBoard} \cup {StartBoard \ {t} : t \in {u \in StartBoard : u[2] = Pawn}}

EvalBoards ==
    {Kings \cup x : x \in {y \in SUBSET PlacementPool : Cardinality(y) <= MaxExtra}}
        \cup StartVariants

InitEval ==
    /\ overflow_checks \in BOOLEAN
    /\ board \in EvalBoards
    /\ weightSet \in WeightSets
    /\ side_to_move \in Color
    /\ ev = [called |-> FALSE]
    /\ IdleNnue /\ IdleFeature /\ IdlePhase

\* evaluate_with_weights_and_trace(board, weights).  The call reads the board and
\* the weights only, so a second call on the same position returns the same
\* record: one call per position is modelled.
EvalCall ==
    /\ ~ev.called
    /\ ev' = EvalResult(side_to_move)
    /\ UNCHANGED <<overflow_checks, board, side_to_move, weightSet,
                   nnVars, ftVars, phVars>>

NextEval == EvalCall

SpecEval == InitEval /\ [][NextEval]_vars

-----------------------------------------------------------------------------
(* claims about the handcrafted evaluator *)

CountOf(piece) == Cardinality({t \in board : t[2] = piece})
FullMaterial ==
    CountOf(Knight) = 4 /\ CountOf(Bishop) = 4 /\ CountOf(Rook) = 4 /\ CountOf(Queen) = 2
NoNonPawnPieces == \A t \in board : t[2] \in {Pawn, King}

\* C5 as stated: game_phase is 256 for the starting position, a phase of 256
\* weights the midgame component alone and a phase of 0 the endgame component
\* alone; at full material the interpolated score is the midgame component and
\* with no non-pawn pieces left it is the endgame component.
C5_StartIsPhase256 ==
    (ev.called /\ ev.phased.ok) =>
        /\ board = StartBoard => ev.phase = 256
        /\ ev.phase = 256 => ev.interpolated = ev.phased.mg
        /\ ev.phase = 0 => ev.interpolated = ev.phased.eg
        /\ FullMaterial => ev.interpolated = ev.phased.mg
        /\ NoNonPawnPieces => ev.interpolated = ev.phased.eg

\* C5 amended: game_phase is 0 at full material (the starting position) and 256
\* with no knight, bishop, rook or queen left; a phase of 0 weights the midgame
\* component alone and a phase of 256 the endgame component alone, so at full
\* material the interpolated score is the midgame component and with no non-pawn
\* pieces left it is the endgame component.
C5_PhaseOrientation ==
    (ev.called /\ ev.phased.ok) =>
        /\ FullMaterial => ev.phase = 0
        /\ NoNonPawnPieces => ev.phase = 256
        /\ ev.phase = 0 => ev.interpolated = ev.phased.mg
        /\ ev.phase = 256 => ev.interpolated = ev.phased.eg

\* the starting position without the e2 pawn, where midgame and endgame differ
C5_Witness ==
    /\ ev.called /\ ev.phased.ok
    /\ board = StartBoard \ {<<White, Pawn, 12>>}
    /\ ev.phase = 0
    /\ ev.phased.mg # ev.phased.eg
    /\ ev.interpolated = ev.phased.mg

\* C6: the position with only the side to move flipped evaluates to the negated
\* score, for every interpolated value an i16 holds, i16::MIN included: the
\* multiplication by the side-to-move sign does not overflow in either call.
C6_SideToMoveAntisymmetry ==
    (ev.called /\ ev.phased.ok) =>
        LET flipped == FinalScore(ev.interpolated, Not(ev.stm))
        IN  /\ ev.mul_ok
            /\ flipped.ok
            /\ flipped.score = -ev.score

\* the sum over the trace's entries of count times weight, per component
DotMg(trace) == SumFn([idx \in DOMAIN trace |-> trace[idx] * WeightAt(idx).mg])
DotEg(trace) == SumFn([idx \in DOMAIN trace |-> trace[idx] * WeightAt(idx).eg])

\* C7: the trace holds +1 (White) or -1 (Black) at the table entry of every weight
\* added to the score, so the sum over all entries of trace[entry] * W[entry] is
\* the un-interpolated White-minus-Black PhasedEval, component by component (in
\* the score's 16-bit arithmetic).
C7_TraceDotWeights ==
    (ev.called /\ ev.phased.ok) =>
        /\ Wrap16(DotMg(ev.trace)) = ev.phased.mg
        /\ Wrap16(DotEg(ev.trace)) = ev.phased.eg
        /\ (weightSet # ExtremeSet) =>
              (DotMg(ev.trace) = ev.phased.mg /\ DotEg(ev.trace) = ev.phased.eg)

C7_Witness ==
    /\ ev.called /\ ev.phased.ok /\ weightSet = 1
    /\ ev.passed[White] # {} /\ ev.passed[Black] # {}
    /\ \E r \in DOMAIN ev.rooks[Black] : ev.rooks[Black][r] = "semiopen"
    /\ \E idx \in DOMAIN ev.trace : ev.trace[idx] < 0
    /\ ev.phased.mg # 0 /\ ev.phased.mg # ev.phased.eg

\* b is on a rank ahead of a, in the direction color's pawns move
Ahead(color, a, b) ==
    IF color = White THEN RankOf(b) > RankOf(a) ELSE RankOf(b) < RankOf(a)

PawnsOf(color) == {t[3] : t \in {u \in board : u[1] = color /\ u[2] = Pawn}}

IsPassedPawn(color, pawn) ==
    /\ ~\E p \in PawnsOf(Not(color)) :
          /\ Ahead(color, pawn, p)
          /\ FileOf(p) - FileOf(pawn) \in {-1, 0, 1}
    /\ ~\E p \in PawnsOf(color) : Ahead(color, pawn, p) /\ FileOf(p) = FileOf(pawn)

\* C8: a pawn is counted as passed iff no enemy pawn is ahead of it on its own or
\* an adjacent file and no own pawn is ahead of it on its own file: the lone
\* White pawn e5 is passed, a Black pawn on e7 or f6 stops that, one on d3 does
\* not, and of the doubled pawns e3, e5 only e5 can be passed.
C8_PassedPawnTest ==
    ev.called =>
        /\ \A c \in Color : \A pawn \in PawnsOf(c) :
              (pawn \in ev.passed[c]) <=> IsPassedPawn(c, pawn)
        /\ \A c \in Color : ev.passed[c] \subseteq PawnsOf(c)
        /\ board = Kings \cup {<<White, Pawn, 36>>} => ev.passed[White] = {36}
        /\ board = Kings \cup {<<White, Pawn, 36>>, <<Black, Pawn, 52>>}
              => 36 \notin ev.passed[White]
        /\ board = Kings \cup {<<White, Pawn, 36>>, <<Black, Pawn, 45>>}
              => 36 \notin ev.passed[White]
        /\ board = Kings \cup {<<White, Pawn, 36>>, <<Black, Pawn, 19>>}
              => 36 \in ev.passed[White]
        /\ {<<White, Pawn, 36>>, <<White, Pawn, 20>>} \subseteq board
              => 20 \notin ev.passed[White]

C8_Witness ==
    /\ ev.called
    /\ board = Kings \cup {<<White, Pawn, 36>>, <<White, Pawn, 20>>, <<Black, Pawn, 19>>}
    /\ ev.passed[White] = {36}
    /\ ev.passed[Black] = {19}

TraceAt(idx) == IF idx \in DOMAIN ev.trace THEN ev.trace[idx] ELSE 0

RooksWith(color, kind) ==
    {r \in DOMAIN ev.rooks[color] : ev.rooks[color][r] = kind}

\* C9: a rook gets the open-file bonus iff no pawn of either color is on its file,
\* the semi-open bonus iff its file holds an enemy pawn and no own pawn, never
\* both; the trace counts each bonus once per such rook, signed by color.
C9_RookFileTerms ==
    ev.called =>
        /\ \A c \in Color : \A r \in DOMAIN ev.rooks[c] :
              LET onFile(color) == {p \in PawnsOf(color) : FileOf(p) = FileOf(r)}
              IN  /\ ev.rooks[c][r] = "open"
                      <=> (onFile(White) = {} /\ onFile(Black) = {})
                  /\ ev.rooks[c][r] = "semiopen"
                      <=> (onFile(Not(c)) # {} /\ onFile(c) = {})
                  /\ onFile(c) # {} => ev.rooks[c][r] = "none"
        /\ TraceAt(RookOpenIdx) =
              Cardinality(RooksWith(White, "open")) - Cardinality(RooksWith(Black, "open"))
        /\ TraceAt(RookSemiopenIdx) =
              Cardinality(RooksWith(White, "semiopen"))
                  - Cardinality(RooksWith(Black, "semiopen"))

C9_Witness ==
    /\ ev.called
    /\ board = Kings \cup {<<White, Rook, 0>>, <<Black, Pawn, 40>>}
    /\ ev.rooks[White][0] = "semiopen"
    /\ TraceAt(RookSemiopenIdx) = 1 /\ TraceAt(RookOpenIdx) = 0
====
